---- MODULE Spec2Model ----
(***************************************************************************)
(* Booking workflow of the yoga event site: the BookingForm component      *)
(* (src/src/components/BookingForm.tsx) with the record store and the      *)
(* notification and payment boundaries it calls.                           *)
(*                                                                         *)
(* JavaScript runs one handler at a time, so every action below is the     *)
(* synchronous part of one handler: from its entry to its first await, or  *)
(* from the resumption of an await to the next one.  Several BookingForm   *)
(* instances (tabs, visitors) share the one record store.                  *)
(***************************************************************************)
EXTENDS Integers, Sequences, FiniteSets, TLC

\* ------------------------------------------------------------------ bounds
NumForms    == 2      \* BookingForm instances that may be mounted
MaxBookings == 2      \* runs of onSubmit, all instances
MaxRuns     == 3      \* runs of onSubmit and handlePaymentSuccess, all instances
StartClock  == 9      \* Date.now() at the start of the run
MaxAuthCalls == 3     \* calls of AuthService.login and logout

Forms == 1 .. NumForms

\* --------------------------------------------------------------- constants
Null      == [null |-> TRUE]       \* JS null / a lookup that found nothing
Undefined == "undefined"           \* an optional field that was never set

EventIds   == {"e1", "e2"}
\* The payment identifiers the gateway hands out, one per successful payment.
IssuedPaymentIds ==
  <<"pay_123", "pay_456", "pay_789", "pay_012", "pay_345", "pay_678">>

PaymentIds == { IssuedPaymentIds[n] : n \in 1 .. Len(IssuedPaymentIds) }

\* What the visitor typed, already accepted by the form's resolver.
FormInputs ==
  { [name |-> "Ann Lee", email |-> "a@x.com", phone |-> "1234567890", studentId |-> "S1"],
    [name |-> "Bo Ray",  email |-> "b@x.com", phone |-> "9876543210", studentId |-> "S2"] }

\* What a visitor may also type: one input per rule of bookingSchema that it
\* breaks.
InvalidInputs ==
  { [name |-> "A",       email |-> "a@x.com",      phone |-> "1234567890", studentId |-> "S1"],
    [name |-> "Ann Lee", email |-> "not-an-email", phone |-> "1234567890", studentId |-> "S1"],
    [name |-> "Ann Lee", email |-> "a@x.com",      phone |-> "12345",      studentId |-> "S1"],
    [name |-> "Ann Lee", email |-> "a@x.com",      phone |-> "1234567890", studentId |-> ""] }

RawInputs == FormInputs \cup InvalidInputs

\* The events of the store when the run starts: e1 is paid, e2 is free,
\* both have one seat left.
InitialEvents ==
  [e \in EventIds |->
     [price               |-> IF e = "e1" THEN 500 ELSE 0,
      maxParticipants     |-> 2,
      currentParticipants |-> 1]]

VARIABLES
  now,        \* the latest value Date.now() has returned
  users,      \* record store: the User records, in insertion order
  bookings,   \* record store: the Booking records, in insertion order
  events,     \* record store: event id -> Event
  forms,      \* form instance -> props and React state of that BookingForm
  calls,      \* form instance -> its handler invocations suspended at an await
  emailLog,   \* notification boundary: mail -> times it was requested
  audit,      \* history: per instance, the handlers it has run
  localStorage,  \* the browser's localStorage: key -> stored text
  authLog     \* history: the calls of AuthService.login and logout

bookingVars == <<now, users, bookings, events, forms, calls, emailLog, audit>>

authVars == <<localStorage, authLog>>

vars == <<now, users, bookings, events, forms, calls, emailLog, audit,
          localStorage, authLog>>

\* ------------------------------------------------------ Date.now().toString()
Digit == <<"0", "1", "2", "3", "4", "5", "6", "7", "8", "9">>

RECURSIVE toString(_)
toString(n) ==
  IF n < 10 THEN <<Digit[n + 1]>>
  ELSE Append(toString(n \div 10), Digit[(n % 10) + 1])

\* ----------------------------------------------------------- bookingSchema
\* The characters of the email texts used here.
Spelling ==
  [s \in {"a@x.com", "b@x.com", "not-an-email"} |->
     CASE s = "a@x.com" -> <<"a", "@", "x", ".", "c", "o", "m">>
       [] s = "b@x.com" -> <<"b", "@", "x", ".", "c", "o", "m">>
       [] OTHER         -> <<"n", "o", "t", "-", "a", "n", "-", "e", "m", "a", "i", "l">>]

\* z.string().email(): one "@" with a local part before it and, after it, a
\* domain of dot-separated non-empty labels ending in a label of two
\* characters or more.
IsEmail(s) ==
  LET c    == Spelling[s]
      ats  == { i \in 1 .. Len(c) : c[i] = "@" }
      at   == CHOOSE i \in ats : TRUE
      dots == { i \in (at + 1) .. Len(c) : c[i] = "." }
  IN /\ Cardinality(ats) = 1
     /\ at > 1
     /\ c[1] # "."
     /\ dots # {}
     /\ \A i \in dots : /\ i > at + 1
                        /\ i < Len(c)
                        /\ c[i + 1] # "."
     /\ \A i \in dots : (\A j \in dots : j <= i) => Len(c) - i >= 2

\* Variant of bookingSchema that accepts a name of one character.
bookingSchemaShortName(data) ==
  (IF Len(data.name) >= 1 THEN {} ELSE {"name"})
    \cup (IF IsEmail(data.email) THEN {} ELSE {"email"})
    \cup (IF Len(data.phone) >= 10 THEN {} ELSE {"phone"})
    \cup (IF Len(data.studentId) >= 1 THEN {} ELSE {"studentId"})

\* bookingSchema, through zodResolver: the fields of data it has an error for.
bookingSchema(data) ==
  (IF Len(data.name) >= 2 THEN {} ELSE {"name"})
    \cup (IF IsEmail(data.email) THEN {} ELSE {"email"})
    \cup (IF Len(data.phone) >= 10 THEN {} ELSE {"phone"})
    \cup (IF Len(data.studentId) >= 1 THEN {} ELSE {"studentId"})

\* ------------------------------------------------------------ record store
\* db.getUserByEmail: the first User with exactly this email, or nothing.
getUserByEmail(us, email) ==
  IF \E i \in 1 .. Len(us) : us[i].email = email
  THEN us[CHOOSE i \in 1 .. Len(us) :
            /\ us[i].email = email
            /\ \A j \in 1 .. (i - 1) : us[j].email # email]
  ELSE Null

\* db.addUser / db.addBooking: append.
addUser(us, user) == Append(us, user)

addBooking(bs, booking) == Append(bs, booking)

\* db.updateBooking(id, partial): merge the supplied fields into the Booking
\* with this id (the first one, should several carry it); unknown id: no-op.
updateBooking(bs, id, partial) ==
  IF \E i \in 1 .. Len(bs) : bs[i].id = id
  THEN LET k == CHOOSE i \in 1 .. Len(bs) :
                  /\ bs[i].id = id
                  /\ \A j \in 1 .. (i - 1) : bs[j].id # id
       IN [bs EXCEPT ![k] = partial @@ bs[k]]
  ELSE bs

\* db.updateEvent(id, partial): same partial merge; unknown id: no-op.
updateEvent(evs, id, partial) ==
  IF id \in DOMAIN evs THEN [evs EXCEPT ![id] = partial @@ evs[id]] ELSE evs

\* The Event object the page hands to BookingForm as a prop.
getEvent(evs, id) == [id |-> id] @@ evs[id]

\* ------------------------------------------------------------- BookingForm
\* useState initial values, with the event prop; errors is the formState.errors
\* of useForm, as the set of the fields it has a message for.
InitialForm(event) ==
  [mounted      |-> TRUE,
   event        |-> event,
   isSubmitting |-> FALSE,
   showPayment  |-> FALSE,
   bookingData  |-> Null,
   success      |-> FALSE,
   errors       |-> {}]

Unmounted ==
  [mounted      |-> FALSE,
   event        |-> Null,
   isSubmitting |-> FALSE,
   showPayment  |-> FALSE,
   bookingData  |-> Null,
   success      |-> FALSE,
   errors       |-> {}]

\* History kept for the properties, per instance: how many times onSubmit and
\* handlePaymentSuccess ran; where in the store the Booking of the current
\* bookingData was appended; how many times completeBooking ran for it and
\* the counter it left behind the first time; whether completeBooking ever
\* ran; how many submissions the resolver turned down.
NoAudit ==
  [submits |-> 0, payments |-> 0, slot |-> 0, finalizes |-> 0, first |-> -1,
   ever |-> FALSE, rejects |-> 0]

\* What the component renders: the confirmation card, the payment gateway,
\* or the form.
SuccessRendered(f) == forms[f].mounted /\ forms[f].success

GatewayRendered(f) ==
  /\ forms[f].mounted
  /\ ~forms[f].success
  /\ forms[f].showPayment
  /\ forms[f].bookingData # Null

FormRendered(f) ==
  /\ forms[f].mounted
  /\ ~forms[f].success
  /\ ~(forms[f].showPayment /\ forms[f].bookingData # Null)

\* onSubmit, "Create user": the id is the clock reading as text.  (The
\* registration and booking timestamps are the same reading and are left out.)
NewUser(data, t) ==
  [id        |-> toString(t),
   name      |-> data.name,
   email     |-> data.email,
   phone     |-> data.phone,
   studentId |-> data.studentId]

\* Variant of NewBooking that starts every Booking as pending.
NewBookingPending(user, event, t) ==
  [id            |-> toString(t),
   userId        |-> user.id,
   eventId       |-> event.id,
   paymentStatus |-> "pending",
   amount        |-> event.price,
   paymentId     |-> Undefined]

\* onSubmit, "Create booking".
NewBooking(user, event, t) ==
  [id            |-> toString(t),
   userId        |-> user.id,
   eventId       |-> event.id,
   paymentStatus |-> IF event.price > 0 THEN "pending" ELSE "completed",
   amount        |-> event.price,
   paymentId     |-> Undefined]

\* Variant of RegisterUser without the lookup: every submission adds a User.
RegisterUserAlways(us, user) == addUser(us, user)

\* onSubmit, "Check if user already exists".
RegisterUser(us, user) ==
  IF getUserByEmail(us, user.email) = Null THEN addUser(us, user) ELSE us

\* Variant of ParticipantsAfterBooking that adds one to the counter it reads
\* from the store instead of the one in the event prop.
ParticipantsFromStore(evs, event) ==
  updateEvent(evs, event.id,
              [currentParticipants |-> evs[event.id].currentParticipants + 1])

\* completeBooking, "Update event participant count": the new value is
\* computed from the event prop of this instance.
ParticipantsAfterBooking(evs, event) ==
  updateEvent(evs, event.id,
              [currentParticipants |-> event.currentParticipants + 1])

\* Variant of BookingsAfterPayment that forgets the payment identifier.
BookingsAfterPaymentNoId(bs, bookingData, paymentId) ==
  updateBooking(bs, bookingData.booking.id, [paymentStatus |-> "completed"])

\* handlePaymentSuccess, "Update booking with payment info".
BookingsAfterPayment(bs, bookingData, paymentId) ==
  updateBooking(bs, bookingData.booking.id,
                [paymentStatus |-> "completed", paymentId |-> paymentId])

BookingMail(user, event, bookingId) ==
  [kind |-> "bookingConfirmation", to |-> user.email, event |-> event.id,
   ref |-> bookingId]

PaymentMail(user, event, paymentId) ==
  [kind |-> "paymentConfirmation", to |-> user.email, event |-> event.id,
   ref |-> <<paymentId>>]

\* The notification boundary is asked to send mail m.
Send(log, m) ==
  IF m \in DOMAIN log THEN [log EXCEPT ![m] = @ + 1] ELSE log @@ (m :> 1)

\* History: onSubmit stored a new Booking for this instance.
Submitted(a, bs) ==
  [a EXCEPT !.submits = @ + 1, !.slot = Len(bs), !.finalizes = 0, !.first = -1]

\* History: completeBooking ran for this instance.
Finalized(a, evs, event) ==
  [a EXCEPT !.finalizes = @ + 1,
            !.first = IF a.first = -1
                      THEN evs[event.id].currentParticipants ELSE a.first,
            !.ever  = TRUE]

RECURSIVE PaymentsUpTo(_)
PaymentsUpTo(n) == IF n = 0 THEN 0 ELSE audit[n].payments + PaymentsUpTo(n - 1)

PaymentsDelivered == PaymentsUpTo(NumForms)

\* Runs of onSubmit and of handlePaymentSuccess so far.
HandlerRuns == Len(bookings) + PaymentsDelivered

RECURSIVE RejectsUpTo(_)
RejectsUpTo(n) == IF n = 0 THEN 0 ELSE audit[n].rejects + RejectsUpTo(n - 1)

\* Submissions the resolver has turned down so far.
Rejections == RejectsUpTo(NumForms)

\* ----------------------------------------------------------------- actions
\* The page mounts a BookingForm for an event it read from the store.
\* Instances are numbered in the order they are mounted.
Mount(f, e) ==
  /\ ~forms[f].mounted
  /\ \A g \in 1 .. (f - 1) : forms[g].mounted
  /\ forms' = [forms EXCEPT ![f] = InitialForm(getEvent(events, e))]
  /\ UNCHANGED <<now, users, bookings, events, calls, emailLog, audit>>
  /\ UNCHANGED authVars

\* onSubmit(data), up to the end of the handler (paid event) or to the await
\* inside completeBooking (free event).  t is what Date.now() returns in this
\* run of the handler: the previous reading, or the next one (the run starts
\* with the first reading).  handleSubmit has emptied formState.errors before
\* it calls onSubmit.
onSubmit(f, data, t) ==
  /\ t \in (IF bookings = << >> THEN {now} ELSE {now, now + 1})
  /\ now' = t
  /\ FormRendered(f)
  /\ ~forms[f].isSubmitting
  /\ Len(bookings) < MaxBookings
  /\ HandlerRuns < MaxRuns
  /\ LET event   == forms[f].event
         user    == NewUser(data, t)
         booking == NewBooking(user, event, t)
     IN /\ users' = RegisterUser(users, user)
        /\ bookings' = addBooking(bookings, booking)
        /\ IF event.price > 0
           THEN /\ forms' = [forms EXCEPT
                               ![f].bookingData = [user |-> user, booking |-> booking],
                               ![f].showPayment = TRUE,
                               ![f].isSubmitting = FALSE,
                               ![f].errors = {}]
                /\ audit' = [audit EXCEPT ![f] = Submitted(@, bookings')]
                /\ UNCHANGED <<events, calls, emailLog>>
           ELSE /\ forms' = [forms EXCEPT
                               ![f].bookingData = [user |-> user, booking |-> booking],
                               ![f].isSubmitting = TRUE,
                               ![f].errors = {}]
                /\ events' = ParticipantsAfterBooking(events, event)
                /\ emailLog' = Send(emailLog, BookingMail(user, event, booking.id))
                /\ calls' = [calls EXCEPT ![f] =
                               Append(@, [handler |-> "onSubmit",
                                          await |-> "sendBookingConfirmation",
                                          user |-> user, booking |-> booking.id,
                                          paymentId |-> Undefined])]
                /\ audit' = [audit EXCEPT ![f] =
                               Finalized(Submitted(@, bookings'), events', event)]
  /\ UNCHANGED authVars

\* handlePaymentSuccess(paymentId), called by the rendered PaymentGateway, up
\* to the await inside completeBooking.
handlePaymentSuccess(f, paymentId) ==
  /\ GatewayRendered(f)
  /\ HandlerRuns < MaxRuns
  /\ PaymentsDelivered < Len(IssuedPaymentIds)
  /\ paymentId = IssuedPaymentIds[PaymentsDelivered + 1]
  /\ LET event == forms[f].event
         bd    == forms[f].bookingData
     IN /\ bookings' = BookingsAfterPayment(bookings, bd, paymentId)
        /\ events' = ParticipantsAfterBooking(events, event)
        /\ emailLog' = Send(emailLog, BookingMail(bd.user, event, bd.booking.id))
        /\ calls' = [calls EXCEPT ![f] =
                       Append(@, [handler |-> "handlePaymentSuccess",
                                  await |-> "sendBookingConfirmation",
                                  user |-> bd.user, booking |-> bd.booking.id,
                                  paymentId |-> paymentId])]
        /\ audit' = [audit EXCEPT ![f] =
                       Finalized([@ EXCEPT !.payments = @ + 1], events', event)]
  /\ UNCHANGED <<now, users, forms>>
  /\ UNCHANGED authVars

\* handleSubmit(onSubmit) of the rendered form: the resolver checks what was
\* typed; onSubmit is called only when it reports no error, otherwise the
\* errors are shown and nothing else happens.  A run counts against the same
\* budgets as a run of onSubmit.
handleSubmit(f, raw, t) ==
  /\ Len(bookings) + Rejections < MaxBookings
  /\ HandlerRuns + Rejections < MaxRuns
  /\ IF bookingSchema(raw) = {}
     THEN onSubmit(f, raw, t)
     ELSE /\ FormRendered(f)
          /\ ~forms[f].isSubmitting
          /\ forms' = [forms EXCEPT ![f].errors = bookingSchema(raw)]
          /\ audit' = [audit EXCEPT ![f].rejects = @ + 1]
          /\ UNCHANGED <<now, users, bookings, events, calls, emailLog>>
          /\ UNCHANGED authVars

\* Variant of onCancel that shows the confirmation card.
onCancelConfirm(f) ==
  /\ GatewayRendered(f)
  /\ forms' = [forms EXCEPT ![f].showPayment = FALSE, ![f].success = TRUE]
  /\ UNCHANGED <<now, users, bookings, events, calls, emailLog, audit>>
  /\ UNCHANGED authVars

\* Variant of onCancel that also withdraws the pending Booking from the store.
onCancelWithdraw(f) ==
  /\ GatewayRendered(f)
  /\ forms' = [forms EXCEPT ![f].showPayment = FALSE]
  /\ bookings' = SubSeq(bookings, 1, Len(bookings) - 1)
  /\ UNCHANGED <<now, users, events, calls, emailLog, audit>>
  /\ UNCHANGED authVars

\* The PaymentGateway's onCancel: () => setShowPayment(false).
onCancel(f) ==
  /\ GatewayRendered(f)
  /\ forms' = [forms EXCEPT ![f].showPayment = FALSE]
  /\ UNCHANGED <<now, users, bookings, events, calls, emailLog, audit>>
  /\ UNCHANGED authVars

Remove(s, i) == SubSeq(s, 1, i - 1) \o SubSeq(s, i + 1, Len(s))

\* EmailService.sendBookingConfirmation resolves: completeBooking sets
\* success (and arms the timer for the page's onSuccess callback, which
\* touches nothing modelled here); onSubmit then runs its finally,
\* handlePaymentSuccess goes on to the await of sendPaymentConfirmation.
BookingMailResolved(f, i) ==
  /\ i \in 1 .. Len(calls[f])
  /\ calls[f][i].await = "sendBookingConfirmation"
  /\ LET c == calls[f][i]
     IN IF c.handler = "onSubmit"
        THEN /\ forms' = [forms EXCEPT ![f].success = TRUE,
                                       ![f].isSubmitting = FALSE]
             /\ calls' = [calls EXCEPT ![f] = Remove(@, i)]
             /\ UNCHANGED emailLog
        ELSE /\ forms' = [forms EXCEPT ![f].success = TRUE]
             /\ calls' = [calls EXCEPT ![f][i].await = "sendPaymentConfirmation"]
             /\ emailLog' = Send(emailLog, PaymentMail(c.user, forms[f].event, c.paymentId))
  /\ UNCHANGED <<now, users, bookings, events, audit>>
  /\ UNCHANGED authVars

\* Variant of BookingMailRejected that undoes the finalize: the participant
\* counter is put back to the value in the event prop.
BookingMailRejectedRollback(f, i) ==
  /\ i \in 1 .. Len(calls[f])
  /\ calls[f][i].await = "sendBookingConfirmation"
  /\ forms' = [forms EXCEPT ![f].isSubmitting =
                 IF calls[f][i].handler = "onSubmit" THEN FALSE ELSE @]
  /\ calls' = [calls EXCEPT ![f] = Remove(@, i)]
  /\ events' = updateEvent(events, forms[f].event.id,
                 [currentParticipants |-> forms[f].event.currentParticipants])
  /\ UNCHANGED <<now, users, bookings, emailLog, audit>>
  /\ UNCHANGED authVars

\* EmailService.sendBookingConfirmation rejects: completeBooking throws;
\* onSubmit logs it and runs its finally, handlePaymentSuccess ends there.
BookingMailRejected(f, i) ==
  /\ i \in 1 .. Len(calls[f])
  /\ calls[f][i].await = "sendBookingConfirmation"
  /\ forms' = [forms EXCEPT ![f].isSubmitting =
                 IF calls[f][i].handler = "onSubmit" THEN FALSE ELSE @]
  /\ calls' = [calls EXCEPT ![f] = Remove(@, i)]
  /\ UNCHANGED <<now, users, bookings, events, emailLog, audit>>
  /\ UNCHANGED authVars

\* EmailService.sendPaymentConfirmation settles: handlePaymentSuccess has
\* nothing after this await, so the call ends the same way whether the mail
\* was delivered or the promise rejected.
PaymentMailSettled(f, i) ==
  /\ i \in 1 .. Len(calls[f])
  /\ calls[f][i].await = "sendPaymentConfirmation"
  /\ calls' = [calls EXCEPT ![f] = Remove(@, i)]
  /\ UNCHANGED <<now, users, bookings, events, forms, emailLog, audit>>
  /\ UNCHANGED authVars

\* ------------------------------------------------------------- AuthService
ADMIN_EMAIL    == "yogaiipsadmin@gmail.com"
ADMIN_PASSWORD == "yogakarlo"
AUTH_KEY       == "yoga_admin_auth"

\* What may be typed into the admin login.
Emails    == {ADMIN_EMAIL, "YogaIipsAdmin@gmail.com", ""}
Passwords == {ADMIN_PASSWORD, "yogakarlo ", ""}

\* localStorage.setItem / removeItem / getItem; getItem gives the stored
\* text, tagged to tell it from null.
setItem(ls, key, value) ==
  [k \in DOMAIN ls \cup {key} |-> IF k = key THEN value ELSE ls[k]]

removeItem(ls, key) == [k \in DOMAIN ls \ {key} |-> ls[k]]

getItem(ls, key) == IF key \in DOMAIN ls THEN [text |-> ls[key]] ELSE Null

\* Variant of CredentialsOk that looks at the email only.
CredentialsOkEmailOnly(email, password) == email = ADMIN_EMAIL

\* The test of login: both texts equal the fixed credentials.
CredentialsOk(email, password) ==
  email = ADMIN_EMAIL /\ password = ADMIN_PASSWORD

\* AuthService.isAuthenticated() on a given localStorage.
isAuthenticated(ls) == getItem(ls, AUTH_KEY) = [text |-> "authenticated"]

\* AuthService.login(email, password); the history keeps what it returned
\* and what isAuthenticated() gave before and after the call.
login(email, password) ==
  /\ Len(authLog) < MaxAuthCalls
  /\ IF CredentialsOk(email, password)
     THEN /\ localStorage' = setItem(localStorage, AUTH_KEY, "authenticated")
          /\ authLog' = Append(authLog,
                [op |-> "login", email |-> email, password |-> password,
                 result |-> TRUE, before |-> isAuthenticated(localStorage),
                 after |-> isAuthenticated(localStorage')])
     ELSE /\ localStorage' = localStorage
          /\ authLog' = Append(authLog,
                [op |-> "login", email |-> email, password |-> password,
                 result |-> FALSE, before |-> isAuthenticated(localStorage),
                 after |-> isAuthenticated(localStorage')])
  /\ UNCHANGED bookingVars

\* AuthService.logout().
logout ==
  /\ Len(authLog) < MaxAuthCalls
  /\ localStorage' = removeItem(localStorage, AUTH_KEY)
  /\ authLog' = Append(authLog,
        [op |-> "logout", email |-> "", password |-> "",
         result |-> FALSE, before |-> isAuthenticated(localStorage),
         after |-> isAuthenticated(localStorage')])
  /\ UNCHANGED bookingVars

\* ----------------------------------------------------------- specification
Init ==
  /\ now = StartClock
  /\ users = << >>
  /\ bookings = << >>
  /\ events = InitialEvents
  /\ forms = [f \in Forms |-> Unmounted]
  /\ calls = [f \in Forms |-> << >>]
  /\ emailLog = [m \in {} |-> 0]
  /\ audit = [f \in Forms |-> NoAudit]
  /\ localStorage = [k \in {} |-> ""]
  /\ authLog = << >>

Next ==
  \/ \E f \in Forms, e \in EventIds : Mount(f, e)
  \/ \E f \in Forms, data \in FormInputs, t \in StartClock .. (StartClock + MaxBookings) :
       onSubmit(f, data, t)
  \/ \E f \in Forms, p \in PaymentIds : handlePaymentSuccess(f, p)
  \/ \E f \in Forms : onCancel(f)
  \/ \E f \in Forms, i \in 1 .. MaxRuns : BookingMailResolved(f, i)
  \/ \E f \in Forms, i \in 1 .. MaxRuns : BookingMailRejected(f, i)
  \/ \E f \in Forms, i \in 1 .. MaxRuns : PaymentMailSettled(f, i)

Spec == Init /\ [][Next]_vars

\* Runs with visitors who may type anything of RawInputs.  The instances are
\* already mounted, odd ones on the paid event and even ones on the free one,
\* and the form is submitted through handleSubmit.
InitValidation ==
  /\ now = StartClock
  /\ users = << >>
  /\ bookings = << >>
  /\ events = InitialEvents
  /\ forms = [f \in Forms |->
                InitialForm(getEvent(InitialEvents,
                                     IF f % 2 = 1 THEN "e1" ELSE "e2"))]
  /\ calls = [f \in Forms |-> << >>]
  /\ emailLog = [m \in {} |-> 0]
  /\ audit = [f \in Forms |-> NoAudit]
  /\ localStorage = [k \in {} |-> ""]
  /\ authLog = << >>

NextValidation ==
  \/ \E f \in Forms, raw \in RawInputs, t \in StartClock .. (StartClock + MaxBookings) :
       handleSubmit(f, raw, t)
  \/ \E f \in Forms, p \in PaymentIds : handlePaymentSuccess(f, p)
  \/ \E f \in Forms : onCancel(f)
  \/ \E f \in Forms, i \in 1 .. MaxRuns : BookingMailResolved(f, i)
  \/ \E f \in Forms, i \in 1 .. MaxRuns : BookingMailRejected(f, i)
  \/ \E f \in Forms, i \in 1 .. MaxRuns : PaymentMailSettled(f, i)

SpecValidation == InitValidation /\ [][NextValidation]_vars

\* The admin session: any sequence of login and logout calls.
NextAuth ==
  \/ \E email \in Emails, password \in Passwords : login(email, password)
  \/ logout

SpecAuth == Init /\ [][NextAuth]_vars

TypeOK ==
  /\ now \in StartClock .. (StartClock + MaxBookings)
  /\ Len(bookings) <= MaxBookings
  /\ HandlerRuns <= MaxRuns
  /\ Len(users) <= Len(bookings)
  /\ \A f \in Forms : Len(calls[f]) <= MaxRuns

\* ------------------------------------------------------------- properties
Participants(e) == events[e].currentParticipants

\* The step is a run of onSubmit / handlePaymentSuccess / onCancel of f.
SubmitStep(f)  == audit'[f].submits = audit[f].submits + 1
PaymentStep(f) == audit'[f].payments = audit[f].payments + 1
CancelStep(f)  == forms[f].showPayment /\ ~forms'[f].showPayment

\* The payment identifier handed to the run of handlePaymentSuccess that a
\* PaymentStep(f) is.
DeliveredPaymentId(f) == calls'[f][Len(calls'[f])].paymentId

HasPaymentId(b) == b.paymentId # Undefined /\ b.paymentId # ""

Registered(us, email) == \E i \in 1 .. Len(us) : us[i].email = email

\* C1: the stored counter of an event never exceeds its capacity, whatever
\* the booking attempts do.
C1_CapacityNeverExceeded ==
  \A e \in EventIds : Participants(e) <= events[e].maxParticipants

\* C2: on a paid event a stored Booking goes from pending to completed only
\* in the handlePaymentSuccess step of its own attempt, with the delivered
\* payment id stored on it; that attempt's submit leaves the counter alone,
\* its first payment success raises the stored counter by exactly one and
\* no later step of the attempt changes it again.
C2_PaidCompletionOnlyOnSuccess ==
  [][ /\ \A i \in 1 .. Len(bookings) :
           (bookings[i].amount > 0 /\ bookings[i].paymentStatus = "pending"
              /\ bookings'[i].paymentStatus = "completed")
           => \E f \in Forms : /\ PaymentStep(f)
                               /\ audit[f].slot = i
                               /\ bookings'[i].paymentId = DeliveredPaymentId(f)
      /\ \A f \in Forms :
           (forms[f].mounted /\ forms[f].event.price > 0) =>
             LET e == forms[f].event.id
             IN /\ SubmitStep(f) => Participants(e)' = Participants(e)
                /\ (PaymentStep(f) /\ audit[f].finalizes = 0) =>
                     /\ Participants(e)' = Participants(e) + 1
                     /\ bookings'[audit[f].slot].paymentStatus = "completed"
                     /\ bookings'[audit[f].slot].paymentId = DeliveredPaymentId(f)
                /\ (PaymentStep(f) /\ audit[f].finalizes > 0) =>
                     Participants(e)' = Participants(e)
    ]_vars

\* C3: a stored Booking that is completed is free or carries a payment id.
C3_CompletedIsFreeOrPaid ==
  \A i \in 1 .. Len(bookings) :
    bookings[i].paymentStatus = "completed" =>
      (bookings[i].amount = 0 \/ HasPaymentId(bookings[i]))

C3_Witness ==
  \E i \in 1 .. Len(bookings) :
    /\ bookings[i].paymentStatus = "completed"
    /\ bookings[i].amount > 0
    /\ bookings[i].paymentId \in PaymentIds

\* C4: the store never holds two Users with the same email, and a submission
\* whose email is already registered leaves the User records as they were.
C4_OneUserPerEmail ==
  [][ /\ \A i, j \in 1 .. Len(users') :
           users'[i].email = users'[j].email => i = j
      /\ \A f \in Forms :
           (SubmitStep(f) /\ Registered(users, forms'[f].bookingData.user.email))
           => users' = users
    ]_vars

\* Two submissions used the same email within one clock reading, and one
\* User is stored for it.
C4_Witness ==
  \E f \in Forms :
    /\ audit[f].slot >= 2
    /\ Len(users) = 1
    /\ forms[f].bookingData.user.email = users[1].email
    /\ forms[f].bookingData.user.id = users[1].id

\* C5: every stored Booking refers to a stored User and to an existing Event.
C5_BookingsReferToStoredUsers ==
  \A i \in 1 .. Len(bookings) :
    /\ \E j \in 1 .. Len(users) : users[j].id = bookings[i].userId
    /\ bookings[i].eventId \in DOMAIN events

\* C6: no increment is lost: the stored counter of an event is its initial
\* value plus the number of instances that have finalized a booking on it.
FinalizedOn(e) ==
  { f \in Forms : forms[f].mounted /\ forms[f].event.id = e /\ audit[f].ever }

C6_IncrementsSerialized ==
  \A e \in EventIds :
    Participants(e) =
      InitialEvents[e].currentParticipants + Cardinality(FinalizedOn(e))

\* C7: a second finalize for the Booking an instance has already finalized
\* leaves the stored counter at the value it had after the first one.
C7_SecondFinalizeKeepsCounter ==
  [][ \A f \in Forms :
        (PaymentStep(f) /\ audit[f].finalizes > 0)
        => Participants(forms[f].event.id)' = audit[f].first
    ]_vars

C7_Witness ==
  \E f \in Forms :
    /\ audit[f].finalizes >= 2
    /\ bookings[audit[f].slot].paymentStatus = "completed"
    /\ Participants(forms[f].event.id) = audit[f].first

\* C8: a payment success delivered for a Booking that is already completed
\* changes no record and requests no mail.
C8_SecondSuccessRejected ==
  [][ \A f \in Forms :
        (PaymentStep(f) /\ bookings[audit[f].slot].paymentStatus = "completed")
        => UNCHANGED <<users, bookings, events, emailLog>>
    ]_vars

\* C9: a cancellation at the payment step changes no record and requests no
\* mail; a Booking that was pending without payment id stays so.
C9_CancelChangesNoRecord ==
  [][ \A f \in Forms :
        CancelStep(f) =>
          /\ UNCHANGED <<users, bookings, events, emailLog>>
          /\ Len(bookings') >= audit[f].slot
          /\ bookings[audit[f].slot].paymentStatus = "pending"
             => /\ bookings'[audit[f].slot].paymentStatus = "pending"
                /\ bookings'[audit[f].slot].paymentId = Undefined
    ]_vars

\* An attempt on a paid event was cancelled before any payment: its Booking
\* is stored, pending, without payment id, and the instance shows the form.
C9_Witness ==
  \E f \in Forms :
    /\ FormRendered(f)
    /\ forms[f].event.price > 0
    /\ forms[f].bookingData # Null
    /\ audit[f].payments = 0
    /\ bookings[audit[f].slot].paymentStatus = "pending"
    /\ bookings[audit[f].slot].paymentId = Undefined
    /\ Participants(forms[f].event.id) = forms[f].event.currentParticipants

\* C10: a submission on a free event adds one completed Booking of amount 0,
\* adds at most one User (none for a registered email), raises the stored
\* counter by exactly one and does not open the payment step.
C10_FreeSubmission ==
  [][ \A f \in Forms :
        (SubmitStep(f) /\ forms[f].event.price = 0) =>
          LET e == forms[f].event.id
          IN /\ Len(bookings') = Len(bookings) + 1
             /\ SubSeq(bookings', 1, Len(bookings)) = bookings
             /\ bookings'[Len(bookings')].paymentStatus = "completed"
             /\ bookings'[Len(bookings')].amount = 0
             /\ Len(users') \in {Len(users), Len(users) + 1}
             /\ Registered(users, forms'[f].bookingData.user.email) => users' = users
             /\ Participants(e)' = Participants(e) + 1
             /\ ~forms'[f].showPayment
    ]_vars

\* C11: the Booking a submission stores has amount = event.price and is
\* pending when the price is positive, completed otherwise; the submission
\* goes on to the payment step exactly when the price is positive, and to
\* completeBooking otherwise.
C11_BookingMatchesPrice ==
  [][ \A f \in Forms :
        SubmitStep(f) =>
          LET price == forms[f].event.price
              b     == bookings'[Len(bookings')]
          IN /\ Len(bookings') = Len(bookings) + 1
             /\ b = forms'[f].bookingData.booking
             /\ b.amount = price
             /\ b.amount = events[b.eventId].price
             /\ b.paymentStatus = (IF price > 0 THEN "pending" ELSE "completed")
             /\ GatewayRendered(f)' <=> (price > 0)
             /\ (audit'[f].finalizes = 1) <=> (price = 0)
             /\ (audit'[f].finalizes = 0) <=> (price > 0)
    ]_vars

\* The store holds a pending Booking of a paid event whose instance shows the
\* gateway, and a completed Booking of a free event that went to
\* completeBooking.
C11_Witness ==
  \E f, g \in Forms :
    /\ GatewayRendered(f)
    /\ bookings[audit[f].slot].paymentStatus = "pending"
    /\ bookings[audit[f].slot].amount = 500
    /\ audit[f].finalizes = 0
    /\ forms[g].mounted /\ forms[g].bookingData # Null
    /\ forms[g].event.price = 0
    /\ bookings[audit[g].slot].paymentStatus = "completed"
    /\ bookings[audit[g].slot].amount = 0
    /\ audit[g].finalizes = 1

\* The step ends a call of f at its await of sendBookingConfirmation without
\* the continuation of completeBooking: the notification failed.
BookingMailFails(f) ==
  \E i \in 1 .. Len(calls[f]) :
    /\ calls[f][i].await = "sendBookingConfirmation"
    /\ calls'[f] = Remove(calls[f], i)
    /\ forms'[f].success = forms[f].success

\* The step ends a call of f at its await of sendPaymentConfirmation.
PaymentMailEnds(f) ==
  \E i \in 1 .. Len(calls[f]) :
    /\ calls[f][i].await = "sendPaymentConfirmation"
    /\ calls'[f] = Remove(calls[f], i)

\* C12: when the booking confirmation fails during completeBooking, the
\* attempt still reaches the confirmed outcome: the instance shows success.
C12_MailFailureKeepsSuccess ==
  [][ \A f \in Forms : BookingMailFails(f) => forms'[f].success ]_vars

\* C13: a failed notification (booking confirmation or payment confirmation)
\* rolls nothing back: the step in which it fails leaves the User, Booking
\* and Event records as they were, and requests no mail.
C13_MailFailureKeepsRecords ==
  [][ \A f \in Forms :
        (BookingMailFails(f) \/ PaymentMailEnds(f))
        => UNCHANGED <<users, bookings, events, emailLog>>
    ]_vars

\* Both notifications of a paid attempt ended without its instance showing
\* success (so the booking confirmation failed), and the stored Booking is
\* still completed with its payment id and the counter is still raised; on
\* another run the payment confirmation of a successful attempt has ended.
C13_Witness ==
  \E f \in Forms :
    /\ forms[f].mounted /\ forms[f].event.price > 0
    /\ audit[f].payments >= 1
    /\ calls[f] = << >>
    /\ ~forms[f].success
    /\ bookings[audit[f].slot].paymentStatus = "completed"
    /\ bookings[audit[f].slot].paymentId \in PaymentIds
    /\ Participants(forms[f].event.id) = forms[f].event.currentParticipants + 1

\* The input the claim calls valid.
MeetsRules(data) ==
  /\ Len(data.name) >= 2
  /\ IsEmail(data.email)
  /\ Len(data.phone) >= 10
  /\ data.studentId # ""

\* The step is a run of handleSubmit of f that the resolver turned down.
RejectStep(f) == audit'[f].rejects = audit[f].rejects + 1

\* C14: a submission whose input breaks a rule of the schema is turned down
\* before any store operation: it adds no User and no Booking, leaves the
\* counter alone, requests no mail, and enters neither the payment step nor
\* completeBooking; only input that meets the rules gets stored.
C14_InvalidInputRejected ==
  [][ \A f \in Forms :
        /\ RejectStep(f) =>
             /\ UNCHANGED <<users, bookings, events, emailLog, calls>>
             /\ forms'[f].errors # {}
             /\ forms'[f].showPayment = forms[f].showPayment
             /\ forms'[f].bookingData = forms[f].bookingData
             /\ forms'[f].success = forms[f].success
             /\ audit'[f].submits = audit[f].submits
             /\ audit'[f].finalizes = audit[f].finalizes
        /\ SubmitStep(f) =>
             /\ MeetsRules(forms'[f].bookingData.user)
             /\ forms'[f].errors = {}
    ]_vars

\* Every kind of bad input has been typed: submissions were turned down for
\* the email and for another field while the store is still empty.
C14_Witness ==
  \E f, g \in Forms :
    /\ forms[f].errors = {"email"}
    /\ forms[g].errors \in {{"name"}, {"phone"}, {"studentId"}}
    /\ audit[f].rejects + audit[g].rejects = 2
    /\ users = << >> /\ bookings = << >>
    /\ events = InitialEvents
    /\ ~forms[f].showPayment /\ ~forms[f].success

\* C15: all stored Booking ids are pairwise distinct and all stored User ids
\* are pairwise distinct, also when two submissions read the same clock
\* value, so that an update by id addresses exactly one Booking.
C15_IdsAreUnique ==
  /\ \A i, j \in 1 .. Len(bookings) : bookings[i].id = bookings[j].id => i = j
  /\ \A i, j \in 1 .. Len(users) : users[i].id = users[j].id => i = j

PaymentMails(log) == { m \in DOMAIN log : m.kind = "paymentConfirmation" }

\* The step requests a payment confirmation.
PaymentMailStep ==
  \E m \in PaymentMails(emailLog') :
    m \notin DOMAIN emailLog \/ emailLog'[m] > emailLog[m]

\* The step takes a call of handlePaymentSuccess of f from the await of the
\* booking confirmation to the await of the payment confirmation.
ReturnsFromFinalize(f) ==
  \E i \in 1 .. Len(calls[f]) :
    /\ calls[f][i].handler = "handlePaymentSuccess"
    /\ calls[f][i].await = "sendBookingConfirmation"
    /\ calls'[f] = [calls[f] EXCEPT ![i].await = "sendPaymentConfirmation"]

\* In its first stretch handlePaymentSuccess marks the Booking completed with
\* the payment id, raises the counter and requests the booking confirmation,
\* and does not yet request the payment confirmation.
FirstStretchInOrder ==
  \A f \in Forms :
    PaymentStep(f) =>
      LET bd == forms[f].bookingData
          c  == calls'[f][Len(calls'[f])]
      IN /\ \E i \in 1 .. Len(bookings') :
              /\ bookings'[i].id = bd.booking.id
              /\ bookings'[i].paymentStatus = "completed"
              /\ bookings'[i].paymentId = c.paymentId
         /\ Participants(forms[f].event.id)' = forms[f].event.currentParticipants + 1
         /\ emailLog' = Send(emailLog, BookingMail(bd.user, forms[f].event, bd.booking.id))
         /\ c.await = "sendBookingConfirmation"
         /\ ~PaymentMailStep

\* A payment confirmation is requested only when completeBooking returns to
\* handlePaymentSuccess, and it carries a payment id the gateway delivered.
PaymentMailOnlyAfterFinalize ==
  PaymentMailStep =>
    /\ \E f \in Forms : ReturnsFromFinalize(f) /\ audit[f].payments >= 1
    /\ \A m \in PaymentMails(emailLog') :
         \E n \in 1 .. PaymentsDelivered : m.ref = <<IssuedPaymentIds[n]>>

\* No step is skipped: a call of handlePaymentSuccess ends only at the await
\* of the payment confirmation.
NoStepSkipped ==
  \A f \in Forms : \A i \in 1 .. Len(calls[f]) :
    (calls[f][i].handler = "handlePaymentSuccess"
       /\ calls'[f] = Remove(calls[f], i))
    => calls[f][i].await = "sendPaymentConfirmation"

\* C16: on a payment success the Booking is completed with the payment id,
\* then completeBooking raises the counter and requests the booking
\* confirmation, and only when it has returned is the payment confirmation
\* requested; no step is skipped, and no payment confirmation is requested
\* for a payment that was not delivered.
C16_PaymentStepsInOrder ==
  [][ FirstStretchInOrder /\ PaymentMailOnlyAfterFinalize /\ NoStepSkipped ]_vars

\* The step sets success of f.
SuccessStep(f) == ~forms[f].success /\ forms'[f].success

\* The step resumes the call c of f after its await of the booking
\* confirmation.
Resumes(f, c) ==
  \E i \in 1 .. Len(calls[f]) :
    /\ calls[f][i] = c
    /\ c.await = "sendBookingConfirmation"
    /\ \/ calls'[f] = Remove(calls[f], i)
       \/ calls'[f] = [calls[f] EXCEPT ![i].await = "sendPaymentConfirmation"]

Effective(i) ==
  \/ authLog[i].op = "logout"
  \/ /\ authLog[i].op = "login"
     /\ authLog[i].email = ADMIN_EMAIL
     /\ authLog[i].password = ADMIN_PASSWORD

\* C18: isAuthenticated() is true exactly when the latest call among the
\* successful logins and the logouts is a successful login; login returns
\* true exactly for the fixed credentials, and a login with anything else
\* returns false and leaves isAuthenticated() as it was.
C18_SessionFollowsLastCall ==
  LET eff == { i \in 1 .. Len(authLog) : Effective(i) }
  IN /\ isAuthenticated(localStorage) <=>
          \E i \in eff : /\ authLog[i].op = "login"
                         /\ \A j \in eff : j <= i
     /\ \A i \in 1 .. Len(authLog) :
          authLog[i].op = "login" =>
            /\ authLog[i].result <=> (/\ authLog[i].email = ADMIN_EMAIL
                                      /\ authLog[i].password = ADMIN_PASSWORD)
            /\ authLog[i].result => authLog[i].after
            /\ ~authLog[i].result => (authLog[i].after <=> authLog[i].before)
     /\ \A i \in 1 .. Len(authLog) :
          authLog[i].op = "logout" => ~authLog[i].after

\* A successful login was followed by a login with the right email and a
\* wrong password, and the session is still authenticated; before them a
\* login with a wrong email was refused on an unauthenticated session.
C18_Witness ==
  /\ Len(authLog) = 3
  /\ authLog[1].op = "login" /\ authLog[1].email # ADMIN_EMAIL
  /\ authLog[1].password = ADMIN_PASSWORD
  /\ ~authLog[1].result /\ ~authLog[1].after
  /\ authLog[2].op = "login" /\ authLog[2].result
  /\ authLog[3].op = "login" /\ authLog[3].email = ADMIN_EMAIL
  /\ authLog[3].password # ADMIN_PASSWORD
  /\ ~authLog[3].result
  /\ isAuthenticated(localStorage)
====
